---- MODULE Spec2Model ----
(***************************************************************************)
(* Model of measurement.py: bootstrap post-processing of Monte Carlo time  *)
(* series (sample_events, bootstrap, process_data_for_plotting,            *)
(* autocorrelation).                                                       *)
(*                                                                         *)
(* Numbers are exact rationals <<n, d>> with d > 0 in lowest terms; the    *)
(* floating point rounding of the program is not modelled.  A DataFrame is *)
(* a record [keys, skip, fill, rows]: `skip` leading copies of the row     *)
(* `fill` followed by the rows of `rows`, with the default RangeIndex      *)
(* labels 0 .. len-1.  A dict is a function on a set of strings.           *)
(***************************************************************************)
EXTENDS Integers, Sequences, FiniteSets, TLC

VARIABLES op, args, pc, boot, block, agg, result

vars == <<op, args, pc, boot, block, agg, result>>

(* ------------------------------ bounds --------------------------------- *)

MaxRows == 3

MaxRepeat == 2

MaxFiles == 2

(* --------------------------- exact numbers ----------------------------- *)

Abs(n) == IF n < 0 THEN -n ELSE n

RECURSIVE Gcd(_, _)
Gcd(a, b) == IF b = 0 THEN a ELSE Gcd(b, a % b)

Norm(n, d) ==
    LET g == Gcd(Abs(n), Abs(d))
        s == IF d < 0 THEN -1 ELSE 1
    IN  <<(s * n) \div g, (s * d) \div g>>

R(n) == <<n, 1>>

RAdd(a, b) == Norm(a[1] * b[2] + b[1] * a[2], a[2] * b[2])

RSub(a, b) == Norm(a[1] * b[2] - b[1] * a[2], a[2] * b[2])

RMul(a, b) == Norm(a[1] * b[1], a[2] * b[2])

RDivInt(a, k) == Norm(a[1], a[2] * k)

RLeq(a, b) == a[1] * b[2] <= b[1] * a[2]

ISqrt(n) == CHOOSE r \in 0..n : r * r <= n /\ (r + 1) * (r + 1) > n

(* sqrt(n/d) = sqrt(n*d)/d, rounded down to a multiple of 1/d when n*d is  *)
(* not a perfect square.                                                   *)
RSqrt(a) == Norm(ISqrt(a[1] * a[2]), a[2])

RECURSIVE SeqSum(_)
SeqSum(s) == IF s = <<>> THEN R(0) ELSE RAdd(s[1], SeqSum(Tail(s)))

(* np.mean of a non-empty list *)
NpMean(vals) == RDivInt(SeqSum(vals), Len(vals))

(* mutant of NpStd: the root mean square, the mean not subtracted *)
NpStdRaw(vals) ==
    RSqrt(NpMean([j \in 1..Len(vals) |-> RMul(vals[j], vals[j])]))

(* np.std of a non-empty list: population standard deviation (ddof = 0) *)
NpStd(vals) ==
    LET m == NpMean(vals)
        dev2 == [j \in 1..Len(vals) |-> RMul(RSub(vals[j], m), RSub(vals[j], m))]
    IN  RSqrt(NpMean(dev2))

(* ------------------------------ dicts ---------------------------------- *)

EmptyDict == [k \in {} |-> 0]

Put(d, k, v) == [x \in (DOMAIN d) \cup {k} |-> IF x = k THEN v ELSE d[x]]

(* dict.update *)
Update(d, e) ==
    [x \in (DOMAIN d) \cup (DOMAIN e) |-> IF x \in DOMAIN e THEN e[x] ELSE d[x]]

(* ---------------------------- DataFrames ------------------------------- *)

DfLen(df) == df.skip + Len(df.rows)

(* the row at position p (1-based) *)
DfRow(df, p) == IF p <= df.skip THEN df.fill ELSE df.rows[p - df.skip]

(* df.iloc[n:] for n >= 0 *)
ILocFrom(df, n) ==
    IF n <= df.skip
    THEN [df EXCEPT !.skip = df.skip - n]
    ELSE [df EXCEPT !.skip = 0,
                    !.rows = SubSeq(df.rows, n - df.skip + 1, Len(df.rows))]

(* the index sets df.sample(n) can draw: n distinct rows (replace=False) *)
Draws(df, n) == {S \in SUBSET (1..DfLen(df)) : Cardinality(S) = n}

RECURSIVE ColSum(_, _, _)
ColSum(df, S, k) ==
    IF S = {} THEN 0
    ELSE LET p == CHOOSE q \in S : TRUE
         IN  DfRow(df, p)[k] + ColSum(df, S \ {p}, k)

(* dict(df.sample(n).mean()) for the drawn positions S, S non-empty *)
SampleMean(df, S) == [k \in df.keys |-> Norm(ColSum(df, S, k), Cardinality(S))]

(* ---------------------------- sample_events ---------------------------- *)

(* mutant of sample_events: heat capacity scaled by beta, not beta squared *)
sample_events_beta(df, system_size, beta, S) ==
    LET sample == SampleMean(df, S)
        withC ==
            IF "E" \in DOMAIN sample /\ "E2" \in DOMAIN sample
            THEN LET c == RSub(sample["E2"], RMul(sample["E"], sample["E"]))
                 IN  Put(sample, "C", RMul(R(beta * system_size), c))
            ELSE sample
        withX ==
            IF "M" \in DOMAIN withC /\ "M2" \in DOMAIN withC
            THEN LET susc == RSub(withC["M2"], RMul(withC["M"], withC["M"]))
                 IN  Put(withC, "X", RMul(R(beta * system_size), susc))
            ELSE withC
    IN  withX

(* lines 38-47, applied to the block mean of the drawn rows S *)
sample_events(df, system_size, beta, S) ==
    LET sample == SampleMean(df, S)
        withC ==
            IF "E" \in DOMAIN sample /\ "E2" \in DOMAIN sample
            THEN LET c == RSub(sample["E2"], RMul(sample["E"], sample["E"]))
                 IN  Put(sample, "C", RMul(R(beta * beta * system_size), c))
            ELSE sample
        withX ==
            IF "M" \in DOMAIN withC /\ "M2" \in DOMAIN withC
            THEN LET susc == RSub(withC["M2"], RMul(withC["M"], withC["M"]))
                 IN  Put(withC, "X", RMul(R(beta * system_size), susc))
            ELSE withC
    IN  withX

(* df.sample raises ValueError when more rows are asked for than exist *)
CanSample(df, n) == n <= DfLen(df)

NoBlock == [drawn |-> {}]

Raised(e) == [kind |-> "raised", error |-> e]

Returned(v) == [kind |-> "value", value |-> v]

NoResult == [kind |-> "none"]

NoFrame == [caller |-> "none"]

(* ------------------------------ inputs --------------------------------- *)

Vals == {1, 3}

KeySets == {{"E", "E2"}, {"E", "E2", "M", "M2"}, {"E", "M"}}

(* one recorded sweep: energy x, magnetization x - 2 and their squares *)
RowOf(x, keys) ==
    [k \in keys |-> CASE k = "E"  -> x
                      [] k = "E2" -> x * x
                      [] k = "M"  -> x - 2
                      [] k = "M2" -> (x - 2) * (x - 2)]

SeqsUpTo(S, n) == UNION {[1..m -> S] : m \in 0..n}

Frame(keys, skip, xs) ==
    [keys |-> keys, skip |-> skip, fill |-> RowOf(1, keys),
     rows |-> [j \in 1..Len(xs) |-> RowOf(xs[j], keys)]]

Frames == {Frame(keys, 0, xs) : keys \in KeySets, xs \in SeqsUpTo(Vals, MaxRows)}

(* the scenario series E = 1, 3, 5, 7 with E2 = 1, 9, 25, 49 *)
ScenarioFrame == Frame({"E", "E2"}, 0, <<1, 3, 5, 7>>)

Params == {<<1, 1>>, <<2, 3>>}

Blocks == 1..(MaxRows + 1)

Repeats == -1..MaxRepeat

Therms == 0..2


(* default of bootstrap's thermalization parameter *)
DefaultThermalization == 1000

AllKeys == {"E", "E2", "M", "M2"}

(* a data file: the digit groups of its name (re.findall(r"[0-9]+", fname)) *)
(* and its contents; a long file holds DefaultThermalization rows before   *)
(* its last two.                                                           *)
DataFiles ==
    {[digits |-> dg, csv |-> Frame(AllKeys, skip, <<1, 3>>)] :
        dg \in {<<>>, <<0>>, <<1>>, <<2>>}, skip \in {0, DefaultThermalization}}

(* the table of readme.txt, indexed by run number *)
Sweeps ==
    {[j \in {0, 1} |-> [K |-> 10 + j, T |-> 1 + j]],
     [j \in {0, 1} |-> [K |-> 10 + j, T |-> 2 - j]]}

Lags == (-2)..(MaxRows + 1)

(* ------------------------------- Init ---------------------------------- *)

InitSampleEvents ==
    /\ op = "sample_events"
    /\ \E df \in Frames \cup {ScenarioFrame}, p \in Params, n \in Blocks :
         args = [df |-> df, system_size |-> p[1], beta |-> p[2], sampling_block |-> n]
    /\ pc = "call_sample_events"

InitBootstrap ==
    /\ op = "bootstrap"
    /\ \E df \in Frames, p \in Params, n \in Blocks, r \in Repeats, th \in Therms :
         args = [filename |-> df, system_size |-> p[1], beta |-> p[2],
                 sampling_block |-> n, repeat |-> r, thermalization |-> th]
    /\ pc = "call_bootstrap"

InitAggregate ==
    /\ op = "aggregate"
    /\ \E files \in SeqsUpTo(DataFiles, MaxFiles), sweep \in Sweeps,
          r \in 1..3, th \in 0..2 :
         args = [path |-> [files |-> files, mcs |-> 5000, lsize |-> 2, sweep |-> sweep],
                 size_multiplier |-> 1, sampling_block |-> 50, write |-> FALSE,
                 repeat |-> r, thermalization |-> th]
    /\ pc = "call_aggregate"

InitAutocorrelation ==
    /\ op = "autocorrelation"
    /\ \E df \in Frames, name \in AllKeys, t \in Lags :
         args = [name |-> name, t |-> t, df_raw |-> df]
    /\ pc = "call_autocorrelation"

Init ==
    /\ \/ InitSampleEvents
       \/ InitBootstrap
       \/ InitAggregate
       \/ InitAutocorrelation
    /\ boot = NoFrame
    /\ block = NoBlock
    /\ agg = NoFrame
    /\ result = NoResult

(* ------------------------------ actions -------------------------------- *)

(* sample_events called directly: lines 35-47 *)
SampleEvents ==
    /\ pc = "call_sample_events"
    /\ pc' = "done"
    /\ IF CanSample(args.df, args.sampling_block)
       THEN \E S \in Draws(args.df, args.sampling_block) :
              LET d == sample_events(args.df, args.system_size, args.beta, S)
              IN  /\ block' = [drawn |-> S, df |-> args.df, sample |-> d,
                               system_size |-> args.system_size, beta |-> args.beta]
                  /\ result' = Returned(d)
       ELSE /\ block' = block
            /\ result' = Raised("ValueError")
    /\ UNCHANGED <<op, args, boot, agg>>

(* bootstrap, lines 53-57: read the file and drop the thermalization rows *)
BootstrapBegin ==
    /\ pc = "call_bootstrap"
    /\ LET a == IF op = "bootstrap" THEN args ELSE agg.call
       IN  boot' = [caller |-> IF op = "bootstrap" THEN "top" ELSE "aggregate",
                    df |-> ILocFrom(a.filename, a.thermalization),
                    system_size |-> a.system_size, beta |-> a.beta,
                    sampling_block |-> a.sampling_block, repeat |-> a.repeat,
                    i |-> 0, observables |-> EmptyDict]
    /\ pc' = "boot_loop"
    /\ UNCHANGED <<op, args, block, agg, result>>

(* observables[name].append(val) for every item of d (a defaultdict(list)) *)
Collect(observables, d) ==
    [name \in (DOMAIN observables) \cup (DOMAIN d) |->
        IF name \in DOMAIN d
        THEN Append(IF name \in DOMAIN observables THEN observables[name] ELSE <<>>,
                    d[name])
        ELSE observables[name]]

(* bootstrap, lines 58-61: one pass of the repeat loop *)
BootstrapRepeat ==
    /\ pc = "boot_loop"
    /\ boot.i < boot.repeat
    /\ IF CanSample(boot.df, boot.sampling_block)
       THEN \E S \in Draws(boot.df, boot.sampling_block) :
              LET d == sample_events(boot.df, boot.system_size, boot.beta, S)
              IN  /\ block' = [drawn |-> S, df |-> boot.df, sample |-> d,
                               system_size |-> boot.system_size, beta |-> boot.beta]
                  /\ boot' = [boot EXCEPT !.i = boot.i + 1,
                                          !.observables = Collect(boot.observables, d)]
                  /\ UNCHANGED <<pc, result>>
       ELSE /\ pc' = "done"
            /\ result' = Raised("ValueError")
            /\ UNCHANGED <<boot, block>>
    /\ UNCHANGED <<op, args, agg>>

ErrName(name) == name \o "err"

(* bootstrap, lines 62-65: mean and standard deviation per observable.     *)
(* No observable of the documented set is another one's name + 'err', so   *)
(* the order of the assignments does not matter.                           *)
Estimates(observables) ==
    LET names == DOMAIN observables
    IN  [k \in names \cup {ErrName(n) : n \in names} |->
            IF k \in names
            THEN NpMean(observables[k])
            ELSE NpStd(observables[CHOOSE n \in names : ErrName(n) = k])]

(* bootstrap, lines 62-67, returning to the caller of a direct call *)
BootstrapReturn ==
    /\ pc = "boot_loop"
    /\ boot.caller = "top"
    /\ ~(boot.i < boot.repeat)
    /\ result' = Returned(Estimates(boot.observables))
    /\ pc' = "done"
    /\ UNCHANGED <<op, args, boot, block, agg>>

(* process_meta_info, lines 110-122, for a well-formed readme.txt *)
process_meta_info(path) == [mcs |-> path.mcs, lsize |-> path.lsize, sweep |-> path.sweep]

(* process_data_for_plotting, lines 82-86 *)
AggBegin ==
    /\ pc = "call_aggregate"
    /\ LET meta == process_meta_info(args.path)
       IN  agg' = [caller |-> "top", mcs |-> meta.mcs, sweep |-> meta.sweep,
                   system_size |-> meta.lsize * meta.lsize * meta.lsize
                                     * args.size_multiplier,
                   files |-> args.path.files, next |-> 1, rows_list |-> <<>>]
    /\ pc' = "agg_loop"
    /\ UNCHANGED <<op, args, boot, block, result>>

(* process_data_for_plotting, line 99: the arguments bootstrap receives.   *)
(* The call is positional: repeat lands in sampling_block, thermalization  *)
(* in repeat, and bootstrap's own thermalization keeps its default.        *)
BootstrapCall(csv, system_size, beta) ==
    [filename |-> csv, system_size |-> system_size, beta |-> beta,
     sampling_block |-> args.repeat, repeat |-> args.thermalization,
     thermalization |-> DefaultThermalization]

(* mutant of AggFile: a file whose run cannot be resolved is skipped *)
AggFileSkip ==
    /\ pc = "agg_loop"
    /\ agg.next <= Len(agg.files)
    /\ LET f == agg.files[agg.next]
           index == f.digits[1]
       IN  IF f.digits = <<>> \/ index \notin DOMAIN agg.sweep
           THEN /\ pc' = pc
                /\ result' = result
                /\ agg' = [agg EXCEPT !.next = @ + 1]
           ELSE LET beta == agg.sweep[index].T
                    data_dict == [K |-> R(agg.sweep[index].K), T |-> R(beta)]
                IN  /\ agg' = Update(agg,
                                [data_dict |-> data_dict,
                                 call |-> BootstrapCall(f.csv, agg.system_size, beta)])
                    /\ pc' = "call_bootstrap"
                    /\ result' = result
    /\ UNCHANGED <<op, args, boot, block>>

(* process_data_for_plotting, lines 87-99: one file up to the bootstrap call *)
AggFile ==
    /\ pc = "agg_loop"
    /\ agg.next <= Len(agg.files)
    /\ LET f == agg.files[agg.next]
           index == f.digits[1]
       IN  IF f.digits = <<>>
           THEN /\ pc' = "done"
                /\ result' = Raised("NameError")
                /\ agg' = agg
           ELSE IF index \notin DOMAIN agg.sweep
           THEN /\ pc' = "done"
                /\ result' = Raised("KeyError")
                /\ agg' = agg
           ELSE LET beta == agg.sweep[index].T
                    data_dict == [K |-> R(agg.sweep[index].K), T |-> R(beta)]
                IN  /\ agg' = Update(agg,
                                [data_dict |-> data_dict,
                                 call |-> BootstrapCall(f.csv, agg.system_size, beta)])
                    /\ pc' = "call_bootstrap"
                    /\ result' = result
    /\ UNCHANGED <<op, args, boot, block>>

(* process_data_for_plotting, lines 99-101: bootstrap returns its estimates *)
AggCollect ==
    /\ pc = "boot_loop"
    /\ boot.caller = "aggregate"
    /\ ~(boot.i < boot.repeat)
    /\ agg' = [agg EXCEPT
                 !.rows_list = Append(@, Update(agg.data_dict,
                                                Estimates(boot.observables))),
                 !.next = @ + 1]
    /\ pc' = "agg_loop"
    /\ UNCHANGED <<op, args, boot, block, result>>

(* insertion of row r into rows sorted by T, after the rows with equal T *)
RECURSIVE InsertByT(_, _)
InsertByT(rows, r) ==
    IF rows = <<>> THEN <<r>>
    ELSE IF RLeq(rows[1]["T"], r["T"])
         THEN <<rows[1]>> \o InsertByT(Tail(rows), r)
         ELSE <<r>> \o rows

RECURSIVE SortByT(_)
SortByT(rows) ==
    IF rows = <<>> THEN <<>>
    ELSE InsertByT(SortByT(SubSeq(rows, 1, Len(rows) - 1)), rows[Len(rows)])

(* mutant of sort_values: the rows stay in the order of discovery *)
sort_values_unsorted(rows) == rows

(* df.sort_values('T') *)
sort_values(rows) == SortByT(rows)

(* process_data_for_plotting, lines 102-105.  pd.DataFrame([]) has no      *)
(* column 'T', so sort_values raises KeyError on an empty rows_list.       *)
AggFinish ==
    /\ pc = "agg_loop"
    /\ ~(agg.next <= Len(agg.files))
    /\ pc' = "done"
    /\ IF agg.rows_list = <<>>
       THEN result' = Raised("KeyError")
       ELSE result' = Returned([df |-> sort_values(agg.rows_list), mcs |-> agg.mcs,
                                system_size |-> agg.system_size])
    /\ UNCHANGED <<op, args, boot, block, agg>>

(* df_raw[name][label]: a label lookup on the RangeIndex 0 .. len-1 *)
HasLabel(name, df, label) == name \in df.keys /\ label \in 0..(DfLen(df) - 1)

At(name, df, label) == DfRow(df, label + 1)[name]

(* autocorrelation, lines 133-136: the loop from pass i on; the sums, or   *)
(* "KeyError" when a lookup fails                                          *)
RECURSIVE AcLoop(_, _, _, _, _)
AcLoop(name, t, df, i, sums) ==
    IF ~(i < DfLen(df) - t) THEN sums
    ELSE IF ~HasLabel(name, df, i) \/ ~HasLabel(name, df, i + t) THEN "KeyError"
    ELSE AcLoop(name, t, df, i + 1,
                <<sums[1] + At(name, df, i) * At(name, df, i + t),
                  sums[2] + At(name, df, i),
                  sums[3] + At(name, df, i + t)>>)

(* mutant of autocorrelation: the assertion on t left out *)
autocorrelation_noassert(name, t, df_raw) ==
    LET tmax == DfLen(df_raw)
        sums == AcLoop(name, t, df_raw, 0, <<0, 0, 0>>)
    IN  IF sums = "KeyError" THEN Raised("KeyError")
        ELSE IF tmax - t = 0 THEN Raised("ZeroDivisionError")
        ELSE LET norm == Norm(1, tmax - t)
             IN  Returned(RSub(RMul(norm, R(sums[1])),
                               RMul(RMul(norm, norm), R(sums[2] * sums[3]))))

(* autocorrelation, lines 129-140 *)
autocorrelation(name, t, df_raw) ==
    LET tmax == DfLen(df_raw)
    IN  IF ~(t < tmax) THEN Raised("AssertionError")
        ELSE LET sums == AcLoop(name, t, df_raw, 0, <<0, 0, 0>>)
             IN  IF sums = "KeyError" THEN Raised("KeyError")
                 ELSE IF tmax - t = 0 THEN Raised("ZeroDivisionError")
                 ELSE LET norm == Norm(1, tmax - t)
                      IN  Returned(RSub(RMul(norm, R(sums[1])),
                                        RMul(RMul(norm, norm), R(sums[2] * sums[3]))))

Autocorrelation ==
    /\ pc = "call_autocorrelation"
    /\ result' = autocorrelation(args.name, args.t, args.df_raw)
    /\ pc' = "done"
    /\ UNCHANGED <<op, args, boot, block, agg>>

Next ==
    \/ SampleEvents
    \/ BootstrapBegin
    \/ BootstrapRepeat
    \/ BootstrapReturn
    \/ AggBegin
    \/ AggFile
    \/ AggCollect
    \/ AggFinish
    \/ Autocorrelation

Spec == Init /\ [][Next]_vars


(* ------------------------------ claims --------------------------------- *)

Done == pc = "done"

BlockDrawn == block.drawn # {}

(* n^2 * (mean(k2) - mean(k)^2) over the drawn rows, from the column sums *)
Fluct(k, k2) ==
    LET n == Cardinality(block.drawn)
        s1 == ColSum(block.df, block.drawn, k)
        s2 == ColSum(block.df, block.drawn, k2)
    IN  n * s2 - s1 * s1

(* C1: every block sample holds C = beta^2 * system_size * (mean(E2) -     *)
(* mean(E)^2) exactly when E and E2 are both columns, X = beta *           *)
(* system_size * (mean(M2) - mean(M)^2) exactly when M and M2 are both     *)
(* columns, and nothing else besides the column means; a missing pair      *)
(* raises no error; the scenario rows E = 1,3,5,7 give C = 5.              *)
DerivedObservables ==
    /\ BlockDrawn =>
         LET s == block.sample
             n == Cardinality(block.drawn)
             keys == block.df.keys
             b == block.beta
             L == block.system_size
             hasE == {"E", "E2"} \subseteq keys
             hasM == {"M", "M2"} \subseteq keys
         IN  /\ DOMAIN s = keys \cup (IF hasE THEN {"C"} ELSE {})
                                \cup (IF hasM THEN {"X"} ELSE {})
             /\ hasE => s["C"][1] * n * n = s["C"][2] * b * b * L * Fluct("E", "E2")
             /\ hasM => s["X"][1] * n * n = s["X"][2] * b * L * Fluct("M", "M2")
             /\ (block.df = ScenarioFrame /\ n = 4 /\ b = 1 /\ L = 1) => s["C"] = R(5)
    /\ (op = "sample_events" /\ Done /\ CanSample(args.df, args.sampling_block))
         => result.kind = "value" /\ BlockDrawn /\ result.value = block.sample

ScenarioSampled ==
    /\ op = "sample_events" /\ Done
    /\ block.drawn = {1, 2, 3, 4}
    /\ block.df = ScenarioFrame
    /\ block.sample["C"] = R(5)
    /\ "X" \notin DOMAIN block.sample

(* rows left in the series after the thermalization trimming *)
UsableRows ==
    IF op = "sample_events" THEN DfLen(args.df)
    ELSE DfLen(ILocFrom(args.filename, args.thermalization))

(* C2: when block_size exceeds the rows left after trimming, sample_events *)
(* and bootstrap fail and return no estimate; no block sample uses a row   *)
(* twice or averages fewer than block_size rows.                           *)
OversizedBlockFails ==
    op \in {"sample_events", "bootstrap"} =>
      /\ (Done /\ args.sampling_block > UsableRows) => result.kind = "raised"
      /\ BlockDrawn =>
           /\ Cardinality(block.drawn) = args.sampling_block
           /\ block.drawn \subseteq 1..UsableRows

(* C3: bootstrap called with repeats < 1 fails; it never returns an        *)
(* estimate for a non-positive repeat count.                               *)
NoRepeatsFails ==
    (op = "bootstrap" /\ Done /\ args.repeat < 1) => result.kind = "raised"

(* C4: process_data_for_plotting on a dataset with zero runs returns an    *)
(* empty table and does not raise.                                         *)
NoRunsEmptyTable ==
    (op = "aggregate" /\ Done /\ args.path.files = <<>>)
      => result.kind = "value" /\ result.value.df = <<>>

InLagRange == 0 <= args.t /\ args.t < DfLen(args.df_raw)

TableReturned == op = "aggregate" /\ Done /\ result.kind = "value"

(* how many rows of the sequence equal r *)
Count(rows, r) == Cardinality({j \in 1..Len(rows) : rows[j] = r})

(* C6: whatever the order the runs are discovered in, the returned table   *)
(* has exactly one row per run and its rows are in non-decreasing order of *)
(* T.                                                                      *)
TableSortedByT ==
    TableReturned =>
      LET df == result.value.df
      IN  /\ Len(df) = Len(args.path.files)
          /\ \A j \in 1..Len(df) : Count(df, df[j]) = Count(agg.rows_list, df[j])
          /\ \A j \in 1..Len(df), k \in 1..Len(df) :
                j < k => RLeq(df[j]["T"], df[k]["T"])

UnsortedRunsSorted ==
    /\ TableReturned
    /\ Len(agg.rows_list) >= 2
    /\ ~RLeq(agg.rows_list[1]["T"], agg.rows_list[2]["T"])
    /\ "Cerr" \in DOMAIN result.value.df[1]

(* the run of file f cannot be processed: no index in its name, no row of  *)
(* the metadata table for its index, or a block larger than its series in  *)
(* the bootstrap call the aggregation makes                                *)
RunFails(f) ==
    \/ f.digits = <<>>
    \/ f.digits[1] \notin DOMAIN args.path.sweep
    \/ LET call == BootstrapCall(f.csv, 1, 1)
       IN  /\ call.repeat >= 1
           /\ call.sampling_block > DfLen(ILocFrom(call.filename, call.thermalization))

(* C7: aggregation is all-or-nothing: if any run fails, it raises and      *)
(* returns no table; a returned table has a row for every run and every    *)
(* row is filled alike, with K, T and the run's estimates.                 *)
AllOrNothing ==
    (op = "aggregate" /\ Done) =>
      /\ (\E j \in 1..Len(args.path.files) : RunFails(args.path.files[j]))
           => result.kind = "raised"
      /\ result.kind = "value" =>
           LET df == result.value.df
           IN  /\ Len(df) = Len(args.path.files)
               /\ \A j \in 1..Len(df) :
                    /\ {"K", "T"} \subseteq DOMAIN df[j]
                    /\ DOMAIN df[j] = DOMAIN df[1]
                    /\ args.thermalization >= 1 =>
                         {"E", "Eerr", "C", "Cerr", "X", "Xerr"} \subseteq DOMAIN df[j]

LaterRunFailed ==
    /\ op = "aggregate" /\ Done
    /\ result.kind = "raised"
    /\ agg.rows_list # <<>>
    /\ ~RunFails(args.path.files[1])

(* C8: bootstrap with repeats = 1 returns, for every key of the one drawn  *)
(* block, the block's value as the mean and 0 as name+'err'; for any       *)
(* repeat count every collected key has a name and a name+'err' entry with *)
(* name+'err' >= 0.                                                        *)
SingleRepeatExact ==
    (op = "bootstrap" /\ Done /\ result.kind = "value" /\ args.repeat >= 1) =>
      LET est == result.value
      IN  /\ BlockDrawn
          /\ \A name \in DOMAIN block.sample :
                /\ name \in DOMAIN est
                /\ ErrName(name) \in DOMAIN est
                /\ est[ErrName(name)][1] >= 0
                /\ est[ErrName(name)][2] > 0
                /\ args.repeat = 1 =>
                     /\ est[name] = block.sample[name]
                     /\ est[ErrName(name)] = R(0)

SingleRepeatReturned ==
    /\ op = "bootstrap" /\ Done /\ result.kind = "value"
    /\ args.repeat = 1
    /\ "X" \in DOMAIN block.sample
    /\ block.sample["C"] # R(0)
    /\ result.value["Cerr"] = R(0)

(* an aggregation is inside the bootstrap call for the file agg.next *)
InRunBootstrap == op = "aggregate" /\ pc = "boot_loop"

(* C9: for every run, process_data_for_plotting called with                *)
(* sampling_block = b, repeat = r, thermalization = t drops exactly the    *)
(* first t records of the run's series and runs bootstrap with block size  *)
(* b and r repeats.                                                        *)
ConfiguredValuesReachBootstrap ==
    InRunBootstrap =>
      /\ boot.df = ILocFrom(agg.files[agg.next].csv, args.thermalization)
      /\ boot.sampling_block = args.sampling_block
      /\ boot.repeat = args.repeat

(* C10: for every run, the beta handed to bootstrap, which enters the C    *)
(* and X formulas, is the inverse 1/T of the run's temperature, while the  *)
(* row's 'T' holds the temperature T of the metadata table.                *)
BetaIsInverseTemperature ==
    InRunBootstrap =>
      LET T == agg.sweep[agg.files[agg.next].digits[1]].T
      IN  /\ agg.data_dict["T"] = R(T)
          /\ RMul(R(boot.beta), R(T)) = R(1)
          /\ (BlockDrawn /\ boot.i > 0) => RMul(R(block.beta), R(T)) = R(1)

====
